---- MODULE Spec2Model ----
(***************************************************************************)
(* Model of src/index.js: a packing of rational numbers num/denom into a   *)
(* fixed-width integer code (sign bit, reciprocal bit, magnitude field).   *)
(*                                                                         *)
(* JavaScript numbers are modelled as records [kind, neg, abs]: finite     *)
(* integers (with a signed zero), the two infinities and NaN.  The result  *)
(* of a bitwise operator is a 32-bit integer, modelled as the set of the   *)
(* positions of its one bits (0 = least significant, 31 = int32 sign).     *)
(***************************************************************************)
EXTENDS Integers, Sequences, FiniteSets, TLC

VARIABLES format, call, prev, a, b, pc

vars == <<format, call, prev, a, b, pc>>

(* ------------------------------ bounds --------------------------------- *)

\* formats of the encoder specifications have bits in 3..MaxBits
MaxBits == 10
\* chunk sizes are 1..MaxChunk
MaxChunk == 3
\* operands of a single encodeNumber call have absolute value <= MaxNum
MaxNum == 21
\* operands of two successive encodeNumber calls are in 1..MaxPairNum
MaxPairNum == 10
\* arguments of gcd are in 0..MaxArg
MaxArg == 12

(* ------------------------- JavaScript numbers -------------------------- *)

\* width of the operands and results of the operators << and |
WordBits == 32

Fin(n) == [kind |-> "fin", neg |-> n < 0, abs |-> IF n < 0 THEN -n ELSE n]
NegZero == [kind |-> "fin", neg |-> TRUE, abs |-> 0]
Infinity == [kind |-> "inf", neg |-> FALSE, abs |-> 0]
NegInfinity == [kind |-> "inf", neg |-> TRUE, abs |-> 0]
NaN == [kind |-> "nan", neg |-> FALSE, abs |-> 0]

IsZero(x) == x.kind = "fin" /\ x.abs = 0

\* x * y on IEEE doubles (integers small enough to be exact)
Times(x, y) ==
  IF x.kind = "nan" \/ y.kind = "nan" THEN NaN
  ELSE IF (x.kind = "inf" /\ IsZero(y)) \/ (IsZero(x) /\ y.kind = "inf") THEN NaN
  ELSE IF x.kind = "inf" \/ y.kind = "inf"
    THEN [kind |-> "inf", neg |-> (x.neg # y.neg), abs |-> 0]
  ELSE [kind |-> "fin", neg |-> (x.neg # y.neg), abs |-> x.abs * y.abs]

\* Math.sign: NaN for NaN, the zero itself for +0 and -0, otherwise +1 or -1
MathSign(x) ==
  IF x.kind = "nan" THEN NaN
  ELSE IF IsZero(x) THEN x
  ELSE [kind |-> "fin", neg |-> x.neg, abs |-> 1]

MathAbs(x) == IF x.kind = "nan" THEN NaN ELSE [x EXCEPT !.neg = FALSE]

isNaN(x) == x.kind = "nan"

\* 1 << k: the shift count is taken modulo 32
ShiftLeftOne(k) == {k % WordBits}

\* the int32 that a bitwise operator makes of a number 0 <= n < 2^31
ToInt32(n) == {i \in 0..(WordBits - 2) : (n \div (2 ^ i)) % 2 = 1}

(* ------------------------------ helpers -------------------------------- *)

RECURSIVE gcd(_, _)
\* one pass of the loop body per unfolding
gcd(x, y) ==
  IF y = 0 THEN x
  ELSE LET x1 == x % y
       IN IF x1 = 0 THEN y ELSE gcd(x1, y % x1)

\* n * (n + 1) / 2, dividing the even factor first so that the product
\* stays below 2^31 for every n the formats need
triangle(n) ==
  IF n % 2 = 0 THEN (n \div 2) * (n + 1) ELSE n * ((n + 1) \div 2)

\* triangle(c) <= y, without forming triangle(c)
TriangleAtMost(c, y) ==
  IF c % 2 = 0 THEN (c \div 2) <= y \div (c + 1)
  ELSE c <= y \div ((c + 1) \div 2)

RECURSIVE TriangleSpan(_, _)
\* the largest power of two s with triangle(s) <= y, or 1
TriangleSpan(s, y) ==
  IF TriangleAtMost(2 * s, y) THEN TriangleSpan(2 * s, y) ELSE s

RECURSIVE TriangleSearch(_, _, _)
TriangleSearch(k, step, y) ==
  IF step = 0 THEN k
  ELSE TriangleSearch(IF TriangleAtMost(k + step, y) THEN k + step ELSE k,
                      step \div 2, y)

\* Math.floor(triangleInverse(p / q)) = floor((sqrt(8 p / q + 1) - 1) / 2):
\* the largest k with triangle(k) <= p / q, that is triangle(k) <= p \div q
floorTriangleInverse(p, q) ==
  LET y == p \div q
  IN IF y = 0 THEN 0 ELSE TriangleSearch(0, TriangleSpan(1, y), y)

\* max = 2 ** (bits - 2) - 1, written without the intermediate 2 ** (bits - 2)
getFormat(bits, chunkSize) ==
  LET max == (2 ^ (bits - 3) - 1) + 2 ^ (bits - 3)
  IN [bits |-> bits,
      max |-> max,
      chunkSize |-> chunkSize,
      softCap |-> triangle(floorTriangleInverse(max - 1, chunkSize))]


\* getReciprocal shifting by bits - 1
getReciprocal_WrongBit(fmt, reciprocal) ==
  IF reciprocal THEN ShiftLeftOne(fmt.bits - 1) ELSE {}

getReciprocal(fmt, reciprocal) ==
  IF reciprocal THEN ShiftLeftOne(fmt.bits - 2) ELSE {}


\* getSign without the Object.is(sign, -0) test
getSign_NoNegativeZero(fmt, sign) ==
  IF sign.kind = "fin" /\ sign.neg /\ sign.abs = 1
  THEN ShiftLeftOne(fmt.bits - 1) ELSE {}

getSign(fmt, sign) ==
  IF (sign.kind = "fin" /\ sign.neg /\ sign.abs = 1)
     \/ (sign.kind = "fin" /\ sign.neg /\ sign.abs = 0)
  THEN ShiftLeftOne(fmt.bits - 1) ELSE {}


\* getNaN ignoring its sign
getNaN_Unsigned(fmt, sign) == getReciprocal(fmt, TRUE)

getNaN(fmt, sign) == getReciprocal(fmt, TRUE) \cup getSign(fmt, sign)

getZero(fmt, sign) == ToInt32(fmt.max) \cup getSign(fmt, sign)


\* getInf without the reciprocal bit
getInf_NoReciprocal(fmt, sign) == ToInt32(fmt.max) \cup getSign(fmt, sign)

getInf(fmt, sign) ==
  ToInt32(fmt.max) \cup getReciprocal(fmt, TRUE) \cup getSign(fmt, sign)

(* ------------------------------ encoder -------------------------------- *)

\* lines 115-121, for positive integers num >= denom in lowest terms;
\* Math.floor((num / denom - 1) / chunkSize) is the integer quotient of
\* num - denom by denom * chunkSize
placement(fmt, num, denom) ==
  LET overflowCount == (num - denom) \div (denom * fmt.chunkSize)
      chunkOffset == denom * (overflowCount + 1)
      numTrunc == num - fmt.chunkSize * overflowCount
      numOffset == numTrunc - denom
  IN [overflowCount |-> overflowCount,
      chunkOffset |-> chunkOffset,
      absoluteOffset |-> triangle(chunkOffset - 1),
      numTrunc |-> numTrunc,
      numOffset |-> numOffset,
      numSpaced |-> numOffset * (overflowCount + 1)]


\* handleOverflow with the sign applied to the NaN of line 126
handleOverflow_SignedNaN(fmt, sign, reciprocal, denom, p) ==
  IF p.absoluteOffset >= fmt.softCap
  THEN IF denom > 1
       THEN [result |-> getNaN(fmt, sign), line |-> 126]
       ELSE LET offsetRemaining == p.absoluteOffset - fmt.softCap
                mainDataEnd == fmt.softCap * fmt.chunkSize
                candidate == mainDataEnd + offsetRemaining * fmt.chunkSize
                             + p.numOffset
            IN IF candidate >= fmt.max
               THEN [result |-> getNaN(fmt, Fin(1)), line |-> 130]
               ELSE [result |-> ToInt32(candidate) \cup getSign(fmt, sign)
                                \cup reciprocal,
                     line |-> 131]
  ELSE [result |-> ToInt32(p.absoluteOffset * fmt.chunkSize + p.numSpaced)
                   \cup getSign(fmt, sign) \cup reciprocal,
        line |-> 134]

\* handleOverflow without offsetRemaining in the linear extension
handleOverflow_NoRemaining(fmt, sign, reciprocal, denom, p) ==
  IF p.absoluteOffset >= fmt.softCap
  THEN IF denom > 1
       THEN [result |-> getNaN(fmt, Fin(1)), line |-> 126]
       ELSE LET mainDataEnd == fmt.softCap * fmt.chunkSize
                candidate == mainDataEnd + p.numOffset
            IN IF candidate >= fmt.max
               THEN [result |-> getNaN(fmt, Fin(1)), line |-> 130]
               ELSE [result |-> ToInt32(candidate) \cup getSign(fmt, sign)
                                \cup reciprocal,
                     line |-> 131]
  ELSE [result |-> ToInt32(p.absoluteOffset * fmt.chunkSize + p.numSpaced)
                   \cup getSign(fmt, sign) \cup reciprocal,
        line |-> 134]

\* lines 123-135: the value returned and the line of the return statement
handleOverflow(fmt, sign, reciprocal, denom, p) ==
  IF p.absoluteOffset >= fmt.softCap
  THEN IF denom > 1
       THEN [result |-> getNaN(fmt, Fin(1)), line |-> 126]
       ELSE LET offsetRemaining == p.absoluteOffset - fmt.softCap
                mainDataEnd == fmt.softCap * fmt.chunkSize
                candidate == mainDataEnd + offsetRemaining * fmt.chunkSize
                             + p.numOffset
            IN IF candidate >= fmt.max
               THEN [result |-> getNaN(fmt, Fin(1)), line |-> 130]
               ELSE [result |-> ToInt32(candidate) \cup getSign(fmt, sign)
                                \cup reciprocal,
                     line |-> 131]
  ELSE [result |-> ToInt32(p.absoluteOffset * fmt.chunkSize + p.numSpaced)
                   \cup getSign(fmt, sign) \cup reciprocal,
        line |-> 134]

\* lines 102-135, for finite nonzero absolute values
encodeFraction(fmt, sign, absNum, absDenom) ==
  LET reciprocal == getReciprocal(fmt, absNum < absDenom)
      swap == reciprocal # {}
      num0 == IF swap THEN absDenom ELSE absNum
      denom0 == IF swap THEN absNum ELSE absDenom
      div == gcd(num0, denom0)
      num == num0 \div div
      denom == denom0 \div div
  IN handleOverflow(fmt, sign, reciprocal, denom, placement(fmt, num, denom))

\* lines 81-100, then encodeFraction
encodeNumber(fmt, num0, denom0) ==
  LET sign == MathSign(Times(num0, denom0))
      num == MathAbs(num0)
      denom == MathAbs(denom0)
      fraction == encodeFraction(fmt, sign, num.abs, denom.abs)
  IN IF IsZero(sign) \/ isNaN(sign) \/ num = Infinity \/ denom = Infinity
     THEN IF isNaN(sign)
            THEN [result |-> getNaN(fmt, Fin(-1)), line |-> 89]
          ELSE IF IsZero(num) /\ IsZero(denom)
            THEN [result |-> getNaN(fmt, Fin(-1)), line |-> 90]
          ELSE IF num = Infinity /\ denom = Infinity
            THEN [result |-> getNaN(fmt, Fin(-1)), line |-> 91]
          ELSE IF num = Infinity
            THEN [result |-> getInf(fmt, sign), line |-> 94]
          ELSE IF IsZero(denom)
            THEN [result |-> getInf(fmt, sign), line |-> 95]
          ELSE IF IsZero(num)
            THEN [result |-> getZero(fmt, sign), line |-> 98]
          ELSE IF denom = Infinity
            THEN [result |-> getZero(fmt, sign), line |-> 99]
          ELSE fraction
     ELSE fraction

(* ------------------------------- state --------------------------------- *)

NoCall == [fn |-> "none", args |-> <<>>, result |-> {}, line |-> 0]

\* the formats of the encoder specifications
Formats == {getFormat(bits, cs) : bits \in 3..MaxBits, cs \in 1..MaxChunk}

\* every width up to the first one the shift operators cannot hold
WideFormats ==
  {getFormat(bits, cs) : bits \in 3..(WordBits + 1), cs \in 1..MaxChunk}

\* the numbers handed to encodeNumber
Numbers ==
  {Fin(n) : n \in (-MaxNum)..MaxNum}
    \cup {NegZero, Infinity, NegInfinity, NaN}

\* the sign arguments of the special-value constructors: -1, -0, 0, 1
Signs == {Fin(-1), NegZero, Fin(0), Fin(1)}

Idle == a = 0 /\ b = 0 /\ pc = "idle"

Init == format \in Formats /\ call = NoCall /\ prev = NoCall /\ Idle

\* the call encodeNumber(format, num, denom) of a behaviour
Encode(num, denom) ==
  LET r == encodeNumber(format, num, denom)
  IN /\ call = NoCall
     /\ call' = [fn |-> "encodeNumber", args |-> <<num, denom>>,
                 result |-> r.result, line |-> r.line]
     /\ UNCHANGED <<format, prev, a, b, pc>>

Next == \E num \in Numbers, denom \in Numbers : Encode(num, denom)

Spec == Init /\ [][Next]_vars

\* the first and the second call encodeNumber(format, num, denom)
EncodeNext(num, denom) ==
  LET r == encodeNumber(format, Fin(num), Fin(denom))
  IN /\ prev = NoCall
     /\ prev' = call
     /\ call' = [fn |-> "encodeNumber", args |-> <<Fin(num), Fin(denom)>>,
                 result |-> r.result, line |-> r.line]
     /\ UNCHANGED <<format, a, b, pc>>

NextPair == \E num \in 1..MaxPairNum, denom \in 1..MaxPairNum : EncodeNext(num, denom)

SpecPair == Init /\ [][NextPair]_vars

(* ------------------------- special-value codes ------------------------- *)

InitSpecial == format \in WideFormats /\ call = NoCall /\ prev = NoCall /\ Idle

Called(fn, sign, result) ==
  /\ prev = NoCall
  /\ prev' = call
  /\ call' = [fn |-> fn, args |-> <<sign>>, result |-> result, line |-> 0]
  /\ UNCHANGED <<format, a, b, pc>>

CallGetSign(sign) == Called("getSign", sign, getSign(format, sign))

CallGetNaN(sign) == Called("getNaN", sign, getNaN(format, sign))

CallGetZero(sign) == Called("getZero", sign, getZero(format, sign))

CallGetInf(sign) == Called("getInf", sign, getInf(format, sign))

NextSpecial ==
  \E sign \in Signs :
    \/ CallGetSign(sign)
    \/ CallGetNaN(sign)
    \/ CallGetZero(sign)
    \/ CallGetInf(sign)

SpecSpecial == InitSpecial /\ [][NextSpecial]_vars

(* ------------------------------ gcd loop ------------------------------- *)

InitGcd ==
  /\ format = getFormat(16, 63)
  /\ prev = NoCall
  /\ a \in 0..MaxArg
  /\ b \in 0..MaxArg
  /\ call = [fn |-> "gcd", args |-> <<a, b>>, result |-> 0, line |-> 0]
  /\ pc = "l29"

Return(value, line) ==
  /\ call' = [call EXCEPT !.result = value, !.line = line]
  /\ pc' = "done"
  /\ UNCHANGED <<format, prev, a, b>>

\* line 29: if (b === 0) return a
GcdTestB ==
  /\ pc = "l29"
  /\ IF b = 0 THEN Return(a, 29)
     ELSE pc' = "l30" /\ UNCHANGED <<format, call, prev, a, b>>

\* line 30: a %= b
GcdModA ==
  /\ pc = "l30"
  /\ a' = a % b
  /\ pc' = "l31"
  /\ UNCHANGED <<format, call, prev, b>>


\* line 31 returning a, which is 0 there
GcdTestA_ReturnsA ==
  /\ pc = "l31"
  /\ IF a = 0 THEN Return(a, 31)
     ELSE pc' = "l32" /\ UNCHANGED <<format, call, prev, a, b>>

\* line 31: if (a === 0) return b
GcdTestA ==
  /\ pc = "l31"
  /\ IF a = 0 THEN Return(b, 31)
     ELSE pc' = "l32" /\ UNCHANGED <<format, call, prev, a, b>>

\* line 32: b %= a, and back to the head of the loop
GcdModB ==
  /\ pc = "l32"
  /\ b' = b % a
  /\ pc' = "l29"
  /\ UNCHANGED <<format, call, prev, a>>

NextGcd == GcdTestB \/ GcdModA \/ GcdTestA \/ GcdModB

\* the loop runs to completion once gcd is called
SpecGcd == InitGcd /\ [][NextGcd]_vars /\ WF_vars(NextGcd)

(* ---------------------- vocabulary of the properties ------------------- *)

SignBit(fmt) == fmt.bits - 1
ReciprocalBit(fmt) == fmt.bits - 2
FieldBits(fmt) == 0..(fmt.bits - 3)

RECURSIVE SumBits(_)
SumBits(s) ==
  IF s = {} THEN 0
  ELSE LET i == CHOOSE j \in s : TRUE IN 2 ^ i + SumBits(s \ {i})

\* the number in the magnitude field of a code
MagnitudeField(fmt, code) == SumBits(code \cap FieldBits(fmt))

\* reciprocal bit set and magnitude field 0, either sign
IsNaNCode(fmt, code) ==
  code \cap (FieldBits(fmt) \cup {ReciprocalBit(fmt)}) = {ReciprocalBit(fmt)}

Divides(d, n) == n % d = 0

\* the largest common divisor of two positive integers, by definition
GreatestCommonDivisor(x, y) ==
  CHOOSE g \in 1..x :
    /\ Divides(g, x) /\ Divides(g, y)
    /\ \A h \in 1..x : Divides(h, x) /\ Divides(h, y) => h <= g

Coprime(x, y) == GreatestCommonDivisor(x, y) = 1

IsEncode(c) == c.fn = "encodeNumber"

FiniteNonzero(x) == x.kind = "fin" /\ x.abs > 0

\* the larger and the smaller operand of a call, in lowest terms
Larger(c) ==
  LET x == c.args[1].abs  y == c.args[2].abs
  IN (IF x >= y THEN x ELSE y) \div GreatestCommonDivisor(x, y)

Smaller(c) ==
  LET x == c.args[1].abs  y == c.args[2].abs
  IN (IF x >= y THEN y ELSE x) \div GreatestCommonDivisor(x, y)

\* the sign of the quotient of a call is negative (or a negative zero)
Negative(c) == c.args[1].neg # c.args[2].neg

Reserved(fmt) ==
  UNION {{getZero(fmt, s), getInf(fmt, s), getNaN(fmt, s)} : s \in Signs}

(* ------------------------------- claims -------------------------------- *)

\* C1: two different fractions num/denom of coprime positive integers with
\* num >= denom whose codes are not NaN codes have different codes.
C1_Injective ==
  (/\ IsEncode(prev) /\ IsEncode(call)
   /\ \A c \in {prev, call} :
        /\ c.args[1].abs >= c.args[2].abs
        /\ Coprime(c.args[1].abs, c.args[2].abs)
        /\ ~IsNaNCode(format, c.result)
   /\ prev.args # call.args)
  => prev.result # call.result

\* the second call has the operands of the first, swapped, and the first has
\* coprime num > denom > 0
SwappedCalls ==
  /\ IsEncode(prev) /\ IsEncode(call)
  /\ call.args = <<prev.args[2], prev.args[1]>>
  /\ prev.args[1].abs > prev.args[2].abs
  /\ Coprime(prev.args[1].abs, prev.args[2].abs)

\* C2 as stated: encode(num, denom) and encode(denom, num) have the same sign
\* bit and magnitude field, and the reciprocal bit is clear in the first and
\* set in the second.
C2_DifferOnlyInReciprocalBit ==
  SwappedCalls =>
    /\ (SignBit(format) \in prev.result) = (SignBit(format) \in call.result)
    /\ prev.result \cap FieldBits(format) = call.result \cap FieldBits(format)
    /\ ReciprocalBit(format) \notin prev.result
    /\ ReciprocalBit(format) \in call.result

\* C2 amended: encode(denom, num) is encode(num, denom) with the reciprocal
\* bit set, so the two agree on the sign bit and the magnitude field, and
\* the reciprocal bit is set for denom/num.
C2_ReciprocalSymmetry ==
  SwappedCalls =>
    /\ call.result = prev.result \cup {ReciprocalBit(format)}
    /\ (SignBit(format) \in prev.result) = (SignBit(format) \in call.result)
    /\ MagnitudeField(format, prev.result) = MagnitudeField(format, call.result)

\* 3/1 then 1/3: two regular codes that differ in the reciprocal bit
C2_Witness ==
  /\ SwappedCalls
  /\ prev.line = 134 /\ call.line = 134
  /\ prev.args = <<Fin(3), Fin(1)>>
  /\ call.result # prev.result
  /\ MagnitudeField(format, call.result) > 0

\* C3: a finite nonzero number over a zero, and an infinity over a finite
\* nonzero number, encode to getInf; a zero over a finite nonzero number, and
\* a finite nonzero number over an infinity, encode to getZero; the sign bit
\* is set exactly when the product of the operands is negative or -0.
C3_SignedZeroInf ==
  IsEncode(call) =>
    LET num == call.args[1]
        denom == call.args[2]
        s == IF Negative(call) THEN Fin(-1) ELSE Fin(1)
        signBits == IF Negative(call) THEN {SignBit(format)} ELSE {}
    IN /\ (FiniteNonzero(num) /\ IsZero(denom))
            \/ (num.kind = "inf" /\ FiniteNonzero(denom))
          => /\ call.result = getInf(format, s)
             /\ call.result
                  = FieldBits(format) \cup {ReciprocalBit(format)} \cup signBits
       /\ (IsZero(num) /\ FiniteNonzero(denom))
            \/ (FiniteNonzero(num) /\ denom.kind = "inf")
          => /\ call.result = getZero(format, s)
             /\ call.result = FieldBits(format) \cup signBits

\* encode(-5, 0): the product is -0 and the code is the negative infinity
C3_Witness ==
  /\ IsEncode(call)
  /\ call.args = <<Fin(-5), Fin(0)>>
  /\ call.line = 95
  /\ SignBit(format) \in call.result

\* C4: two zeros, two infinities, a zero and an infinity, or a NaN operand
\* encode to getNaN(format, -1): reciprocal and sign bit set, magnitude 0,
\* returned before the infinity and zero rules are tried.
C4_InvalidInput ==
  IsEncode(call) =>
    LET num == call.args[1]
        denom == call.args[2]
    IN (\/ IsZero(num) /\ IsZero(denom)
        \/ num.kind = "inf" /\ denom.kind = "inf"
        \/ IsZero(num) /\ denom.kind = "inf"
        \/ num.kind = "inf" /\ IsZero(denom)
        \/ isNaN(num) \/ isNaN(denom))
       => /\ call.result = {ReciprocalBit(format), SignBit(format)}
          /\ call.result = getNaN(format, Fin(-1))
          /\ call.line \in {89, 90, 91}

\* encode(-0, Infinity): the product is NaN
C4_Witness ==
  /\ IsEncode(call)
  /\ call.args = <<NegZero, Infinity>>
  /\ call.line = 89
  /\ call.result = {ReciprocalBit(format), SignBit(format)}

\* the call has finite nonzero operands whose reduced form, larger over
\* smaller, has denom > 1 and absoluteOffset >= softCap
Saturates(c) ==
  /\ IsEncode(c)
  /\ FiniteNonzero(c.args[1]) /\ FiniteNonzero(c.args[2])
  /\ LET num == Larger(c)
         denom == Smaller(c)
         overflowCount == (num - denom) \div (denom * format.chunkSize)
         last == denom * (overflowCount + 1) - 1
     IN denom > 1 /\ (last * (last + 1)) \div 2 >= format.softCap

\* C5: such a call returns the canonical positive NaN (reciprocal bit only),
\* whatever the signs and the order of its operands.
C5_OverflowSaturation ==
  Saturates(call) =>
    call.result = {ReciprocalBit(format)} /\ call.line = 126

\* a negative ratio below 1 that saturates
C5_Witness ==
  /\ Saturates(call)
  /\ Negative(call)
  /\ call.args[1].abs < call.args[2].abs
  /\ call.result = {ReciprocalBit(format)}

Kinds == {"getZero", "getInf", "getNaN"}

ReservedCodes ==
  /\ (/\ prev.fn \in Kinds /\ call.fn \in Kinds
      /\ <<prev.fn, prev.args[1].neg>> # <<call.fn, call.args[1].neg>>)
     => prev.result # call.result
  /\ (/\ prev.fn \in Kinds \cup {"getSign"}
      /\ call.fn = prev.fn
      /\ prev.args[1].neg = call.args[1].neg)
     => prev.result = call.result

\* C6 as stated: in every format with bits >= 3 the codes of two different
\* (kind, sign) combinations differ, and a constructor gives one code for the
\* signs 0 and 1 and one code for the signs -0 and -1.
C6_ReservedDistinctAnyWidth == ReservedCodes

\* C6 amended: the same, in every format with 3 <= bits <= 32.
C6_ReservedDistinct == format.bits <= WordBits => ReservedCodes

\* the widest format: zero of sign -0 and infinity of sign -1 differ
C6_Witness ==
  /\ format.bits = WordBits
  /\ prev.fn = "getZero" /\ prev.args = <<NegZero>>
  /\ call.fn = "getInf" /\ call.args = <<Fin(-1)>>
  /\ prev.result # call.result
  /\ WordBits - 1 \in prev.result \cap call.result

\* two calls with denom = 1 and a larger num in the second
IntegerCalls ==
  /\ IsEncode(prev) /\ IsEncode(call)
  /\ prev.args[2] = Fin(1) /\ call.args[2] = Fin(1)
  /\ prev.args[1].abs < call.args[1].abs

\* C7: for denom = 1 the magnitude of the codes that are not NaN increases
\* strictly with num, also from the triangular to the linear-extension
\* path, and once a num encodes to NaN every larger one does.
C7_MonotonicIntegers ==
  IntegerCalls =>
    /\ (~IsNaNCode(format, prev.result) /\ ~IsNaNCode(format, call.result))
       => /\ MagnitudeField(format, prev.result)
               < MagnitudeField(format, call.result)
          /\ prev.result # call.result
    /\ IsNaNCode(format, prev.result) => IsNaNCode(format, call.result)

\* the last integer of the triangular path and the first of the extension
C7_Witness ==
  /\ IntegerCalls
  /\ call.args[1].abs = prev.args[1].abs + 1
  /\ prev.line = 134 /\ call.line = 131
  /\ MagnitudeField(format, prev.result) < MagnitudeField(format, call.result)

\* the value returned by gcd(x, y) is the greatest common divisor
GcdReturned ==
  (pc = "done" /\ call.args # <<0, 0>>) =>
    LET x == call.args[1]
        y == call.args[2]
    IN /\ call.result > 0
       /\ Divides(call.result, x) /\ Divides(call.result, y)
       /\ \A d \in 1..MaxArg : Divides(d, x) /\ Divides(d, y) => d <= call.result
       /\ call.result = gcd(y, x)
       /\ y = 0 => call.result = x
       /\ x = 0 => call.result = y

\* C8: gcd(a, b) terminates for all non-negative a, b, and for a, b not both
\* zero its value is the greatest common divisor, the same for gcd(b, a),
\* with gcd(a, 0) = a and gcd(0, b) = b.
C8_GcdCorrect == [](GcdReturned) /\ <>(pc = "done")

\* gcd(8, 12) = 4, the first argument the smaller
C8_Witness ==
  /\ pc = "done"
  /\ call.args = <<8, 12>>
  /\ call.result = 4

\* C9: when positive integers are encoded on the non-overflow path the value
\* absoluteOffset * chunkSize + numSpaced is at most max, and the code has
\* the reciprocal bit of the operand order and no sign bit.
C9_MagnitudeInField ==
  (/\ IsEncode(call) /\ call.line = 134
   /\ FiniteNonzero(call.args[1]) /\ ~call.args[1].neg
   /\ FiniteNonzero(call.args[2]) /\ ~call.args[2].neg)
  => LET p == placement(format, Larger(call), Smaller(call))
     IN /\ p.absoluteOffset * format.chunkSize + p.numSpaced <= format.max
        /\ (ReciprocalBit(format) \in call.result)
             = (call.args[1].abs < call.args[2].abs)
        /\ SignBit(format) \notin call.result

\* C10: a code returned for finite nonzero integers by one of the two
\* regular return statements is no reserved code: its magnitude field is
\* not max, and is 0 only with the reciprocal bit clear, for the fraction 1/1.
C10_NoAlias ==
  (IsEncode(call) /\ call.line \in {131, 134}) =>
    /\ call.result \notin Reserved(format)
    /\ MagnitudeField(format, call.result) # format.max
    /\ MagnitudeField(format, call.result) = 0
         => /\ ReciprocalBit(format) \notin call.result
            /\ call.args[1].abs = call.args[2].abs

====
